---------------------------- MODULE Spec2Model ----------------------------
(***************************************************************************)
(* A model of the vscode-river extension (src/extension.js): the           *)
(* background validator (debounce timers, alloy fmt child processes, the   *)
(* diagnostic collection), the stderr parser and the explicit format       *)
(* action.                                                                 *)
(*                                                                         *)
(* JavaScript strings are modelled as sequences of one-character strings,  *)
(* so that the regular expressions of the source are computed character by *)
(* character.                                                              *)
(***************************************************************************)
EXTENDS Integers, Sequences, FiniteSets, TLC

(***************************************************************************)
(* Bounds of the model.                                                    *)
(***************************************************************************)
\* Validation processes in flight at once, over all documents.
MaxInFlight == 2
\* Timeout objects alive at once in the runtime.
MaxHandles == 3
\* Format actions in progress at once.
MaxFormats == 2
\* Records in one stderr text given to the parser.
MaxRecords == 2

(***************************************************************************)
(* Characters and strings.                                                 *)
(***************************************************************************)
Digits == <<"0", "1", "2", "3", "4", "5", "6", "7", "8", "9">>

IsDigit(c) == \E k \in 1..Len(Digits) : Digits[k] = c

DigitVal(c) == (CHOOSE k \in 1..Len(Digits) : Digits[k] = c) - 1

\* The characters the regular expression class \s matches, among those used.
IsSpace(c) == c \in {" ", "\n", "\t"}

\* s.substring(from - 1, to): the characters from..to (1-based, inclusive).
Sub(s, from, to) == IF to < from THEN <<>> ELSE SubSeq(s, from, to)

\* The literal `lit` occurs in s at position i.
HasAt(s, i, lit) ==
    /\ i + Len(lit) - 1 <= Len(s)
    /\ \A k \in 1..Len(lit) : s[i + k - 1] = lit[k]

\* The literal text of the record marker.
StdinMarker == <<"<", "s", "t", "d", "i", "n", ">", ":">>

RECURSIVE DigitRun(_, _)
\* Length of the maximal run of digits of s that starts at i (greedy \d+).
DigitRun(s, i) ==
    IF i <= Len(s) /\ IsDigit(s[i]) THEN 1 + DigitRun(s, i + 1) ELSE 0

RECURSIVE SpaceRun(_, _)
\* Length of the maximal run of whitespace of s that starts at i (greedy \s*).
SpaceRun(s, i) ==
    IF i <= Len(s) /\ IsSpace(s[i]) THEN 1 + SpaceRun(s, i + 1) ELSE 0

RECURSIVE NotLtRun(_, _)
\* Length of the maximal run of characters other than "<" from i (greedy [^<]+).
NotLtRun(s, i) ==
    IF i <= Len(s) /\ s[i] # "<" THEN 1 + NotLtRun(s, i + 1) ELSE 0

RECURSIVE ParseInt(_)
\* parseInt(digits, 10) of a non-empty string of digits.
ParseInt(ds) ==
    IF Len(ds) = 0 THEN 0
    ELSE 10 * ParseInt(SubSeq(ds, 1, Len(ds) - 1)) + DigitVal(ds[Len(ds)])

Max(a, b) == IF a >= b THEN a ELSE b

Min(a, b) == IF a <= b THEN a ELSE b

RECURSIVE Trim(_)
\* String.prototype.trim.
Trim(s) ==
    IF Len(s) = 0 THEN s
    ELSE IF IsSpace(s[1]) THEN Trim(Tail(s))
    ELSE IF IsSpace(s[Len(s)]) THEN Trim(SubSeq(s, 1, Len(s) - 1))
    ELSE s

RECURSIVE CollapseSpace(_)
\* s.replace(/\s+/g, ' '): every run of whitespace becomes one space.
CollapseSpace(s) ==
    IF Len(s) = 0 THEN s
    ELSE IF IsSpace(s[1])
         THEN <<" ">> \o CollapseSpace(Sub(s, 1 + SpaceRun(s, 1), Len(s)))
         ELSE <<s[1]>> \o CollapseSpace(Tail(s))


(***************************************************************************)
(* parseAlloyErrors: the stderr parser.                                    *)
(***************************************************************************)
NoMatch == [ok |-> FALSE]

\* One attempt of /<stdin>:(\d+):(\d+):\s*([^<]+)/ at position i of s.  The
\* greedy \s* gives back its last character when [^<]+ would otherwise match
\* nothing, as the backtracking matcher does.
MatchAt(s, i) ==
    IF ~HasAt(s, i, StdinMarker) THEN NoMatch
    ELSE LET p1 == i + Len(StdinMarker)
             n1 == DigitRun(s, p1)
             p2 == p1 + n1 + 1
             n2 == DigitRun(s, p2)
             p3 == p2 + n2 + 1
             ws == SpaceRun(s, p3)
             r  == NotLtRun(s, p3)
         IN  IF n1 = 0 \/ ~HasAt(s, p1 + n1, <<":">>) THEN NoMatch
             ELSE IF n2 = 0 \/ ~HasAt(s, p2 + n2, <<":">>) THEN NoMatch
             ELSE IF r = 0 THEN NoMatch
             ELSE [ok   |-> TRUE,
                   m1   |-> Sub(s, p1, p1 + n1 - 1),
                   m2   |-> Sub(s, p2, p2 + n2 - 1),
                   m3   |-> IF r > ws THEN Sub(s, p3 + ws, p3 + r - 1)
                                      ELSE Sub(s, p3 + r - 1, p3 + r - 1),
                   next |-> p3 + r]

RECURSIVE Exec(_, _)
\* re.exec(s) with re.lastIndex = i - 1: the leftmost match at or after i.
Exec(s, i) ==
    IF i > Len(s) THEN NoMatch
    ELSE IF MatchAt(s, i).ok THEN MatchAt(s, i)
    ELSE Exec(s, i + 1)

RECURSIVE ExecLoop(_, _)
\* The while loop of parseAlloyErrors, started with lastIndex = i - 1.
ExecLoop(s, i) ==
    LET m == Exec(s, i)
    IN  IF ~m.ok THEN <<>>
        ELSE << [line    |-> Max(0, ParseInt(m.m1) - 1),
                 col     |-> Max(0, ParseInt(m.m2) - 1),
                 message |-> Trim(m.m3)] >> \o ExecLoop(s, m.next)

parseAlloyErrors(stderr) ==
    IF Len(stderr) = 0 THEN <<>>
    ELSE ExecLoop(Trim(CollapseSpace(stderr)), 1)

RECURSIVE TestFrom(_, _)
TestFrom(s, i) ==
    IF i > Len(s) THEN FALSE
    ELSE LET p1 == i + Len(StdinMarker)
             n1 == DigitRun(s, p1)
             p2 == p1 + n1 + 1
             n2 == DigitRun(s, p2)
         IN  \/ /\ HasAt(s, i, StdinMarker)
                /\ n1 > 0 /\ HasAt(s, p1 + n1, <<":">>)
                /\ n2 > 0 /\ HasAt(s, p2 + n2, <<":">>)
             \/ TestFrom(s, i + 1)

\* /<stdin>:\d+:\d+:/.test(msg)
hasPositions(msg) == TestFrom(msg, 1)

(***************************************************************************)
(* Documents: text, lines, positions and ranges.                           *)
(***************************************************************************)
RECURSIVE CountNewlines(_)
CountNewlines(t) ==
    IF Len(t) = 0 THEN 0
    ELSE (IF t[1] = "\n" THEN 1 ELSE 0) + CountNewlines(Tail(t))

\* document.lineCount
lineCount(t) == 1 + CountNewlines(t)

RECURSIVE LineStart(_, _)
\* Position (1-based) of the first character of line n (0-based) of t.
LineStart(t, n) ==
    IF n = 0 THEN 1
    ELSE LET prev == LineStart(t, n - 1)
             len  == CHOOSE k \in 0..(Len(t) - prev) :
                        /\ \A j \in prev..(prev + k - 1) : t[j] # "\n"
                        /\ t[prev + k] = "\n"
         IN  prev + len + 1

\* Length of line n (0-based) of t, without its line break.
LineLen(t, n) ==
    LET from == LineStart(t, n)
    IN  CHOOSE k \in 0..(Len(t) - from + 1) :
            /\ \A j \in from..(from + k - 1) : t[j] # "\n"
            /\ (from + k > Len(t) \/ t[from + k] = "\n")

Position(line, character) == [line |-> line, character |-> character]

\* Position.isBefore
isBefore(a, b) ==
    \/ a.line < b.line
    \/ a.line = b.line /\ a.character < b.character

\* new vscode.Range(start, end): the two positions in document order.
Range(start, end) ==
    IF isBefore(start, end) THEN [start |-> start, end |-> end]
                            ELSE [start |-> end, end |-> start]

\* document.lineAt(n).range.end
LineEnd(t, n) == Position(n, LineLen(t, n))

\* The diagnostic validate builds from one parsed record, against text t.
Diagnostic(rec, t) ==
    LET start == Position(rec.line, rec.col)
        end   == LineEnd(t, Min(rec.line, lineCount(t) - 1))
    IN  [range    |-> Range(start, end),
         message  |-> rec.message,
         severity |-> "Error",
         source   |-> "alloy fmt"]

\* parsed.map(...) of validate's close handler.
Diagnostics(parsed, t) == [k \in 1..Len(parsed) |-> Diagnostic(parsed[k], t)]

(***************************************************************************)
(* The inputs of the model.                                                *)
(***************************************************************************)
\* Two documents: d1 is a river document, d2 is not.
Docs == {"d1", "d2"}

\* Document contents: "a" and "a\nbb".
Texts == { <<"a">>, <<"a", "\n", "b", "b">> }

\* "<stdin>:1:2: x"
ErrOne == StdinMarker \o <<"1", ":", "2", ":", " ", "x">>

\* "<stdin>:2:1: y\n<stdin>:3:4: x"
ErrTwo == StdinMarker \o <<"2", ":", "1", ":", " ", "y", "\n">>
          \o StdinMarker \o <<"3", ":", "4", ":", " ", "x">>

\* "x y": an error of unknown shape.
ErrUnknown == <<"x", " ", "y">>

\* What the formatter may have written to stderr when it exits.
Stderrs == { <<>>, ErrOne, ErrTwo, ErrUnknown }

\* The stderr texts the formatter writes from positioned errors: the line
\* and column numerals, the message texts ("x", "a  b", "a<b") and the
\* whitespace between two records.
Numerals == { <<"1">>, <<"1", "2">> }

Messages == { <<"x">>, <<"a", " ", " ", "b">>, <<"a", "<", "b">> }

Separators == { <<" ">>, <<"\n">>, <<"\n", " ">> }

ErrorRecords == [L : Numerals, C : Numerals, msg : Messages]

\* "<stdin>:L:C: msg"
RecordText(r) ==
    StdinMarker \o r.L \o <<":">> \o r.C \o <<":", " ">> \o r.msg

RECURSIVE StderrText(_, _)
\* The records recs in order, with seps[k] between record k and record k + 1.
StderrText(recs, seps) ==
    IF Len(recs) = 0 THEN <<>>
    ELSE IF Len(recs) = 1 THEN RecordText(recs[1])
    ELSE RecordText(recs[1]) \o seps[1] \o StderrText(Tail(recs), Tail(seps))

\* Exit codes of the formatter process.
ExitCodes == {0, 1}

\* What the formatter may have written to stdout when it exits.
Stdouts == Texts

\* How cp.spawn ends: the process runs, or it cannot be started (ENOENT,
\* EACCES), which the runtime reports by an 'error' event on the child.
SpawnOutcomes == {"ok", "enoent"}

\* JavaScript's undefined, where a document is expected.
Undefined == "undefined"

\* Maps (the timers Map, the diagnostic collection) are functions whose
\* domain is the set of keys that have an entry.
EmptyMap == <<>>

MapHas(m, k) == k \in DOMAIN m

MapSet(m, k, v) == [x \in DOMAIN m \cup {k} |-> IF x = k THEN v ELSE m[x]]

MapDelete(m, k) == [x \in DOMAIN m \ {k} |-> m[x]]

Handles == 1..MaxHandles

(***************************************************************************)
(* The state.                                                              *)
(*   open, languageId, text  the editor's documents                        *)
(*   timers      the Map from document key to Timeout of setupDiagnostics  *)
(*   pending     the Timeouts armed in the runtime, neither fired nor      *)
(*               cleared                                                   *)
(*   collection  the diagnostic collection: a map from document to its     *)
(*               sequence of diagnostics                                   *)
(*   children    per document, the validation processes spawned and not    *)
(*               yet reported, in the order validate spawned them          *)
(*   formats     the explicit format actions in progress, in the order they *)
(*               were requested: the state of each one's process and       *)
(*               promise, the error messages it has shown and the edits it *)
(*               returned                                                  *)
(*   event       history: the notification handled last and what its       *)
(*               handler did (stderr: the text the handler parsed; result: *)
(*               the format action the notification ended; records: the    *)
(*               records a stderr text was written from; parsed: what      *)
(*               parseAlloyErrors returned for it)                         *)
(*   validated   history: per document, whether a validation was started   *)
(*               since its last change event, and the text the last one    *)
(*               started was given                                         *)
(***************************************************************************)
VARIABLES open, languageId, text, timers, pending, collection, children,
          formats, event, validated

vars == <<open, languageId, text, timers, pending, collection, children,
          formats, event, validated>>

\* No validation of the document has been started since its last change.
NotValidated == [started |-> FALSE, text |-> <<>>]

\* The diagnostics shown for document d: none when the collection has no entry.
PublishedIn(c, d) == IF MapHas(c, d) THEN c[d] ELSE <<>>

Published(d) == PublishedIn(collection, d)

\* A format action that has just been requested for document d.
NewFormat(d, original, phase) ==
    [doc |-> d, original |-> original, phase |-> phase,
     promise |-> "pending", cause |-> "none", stderr |-> <<>>,
     messages |-> <<>>, returned |-> FALSE, edits |-> <<>>]

NoFormat == NewFormat(Undefined, <<>>, "none")

NoEvent ==
    [op |-> "activate", doc |-> Undefined, delay |-> 0,
     replaced |-> 0, outcome |-> Undefined, code |-> 0, stderr |-> <<>>,
     input |-> <<>>, wrote |-> FALSE, hadDiags |-> FALSE, stale |-> FALSE,
     action |-> 0, result |-> NoFormat, records |-> <<>>, parsed |-> <<>>,
     stdout |-> <<>>]

\* The Timeout armed for document d, if any, as a set.
TimersOf(d) == {t \in pending : t.doc = d}

\* clearTimeout(h)
clearTimeout(P, h) == {t \in P : t.id # h}

\* The Timeout objects alive once P are armed: those armed and those the
\* timers Map refers to under another key than k.
Alive(P, k) == {t.id : t \in P} \cup {timers[x] : x \in DOMAIN timers \ {k}}

\* setTimeout returns a Timeout object that is none of those alive.
FreshHandle(P, k) ==
    CHOOSE h \in Handles \ Alive(P, k) : \A g \in Handles \ Alive(P, k) : h <= g

\* Mutant of scheduleValidate: the existing Timeout is not cleared.
scheduleValidateNoClear(d, delay) ==
    LET to == FreshHandle(pending, d)
    IN  /\ Handles \ Alive(pending, d) # {}
        /\ pending' = pending \cup {[id |-> to, doc |-> d, delay |-> delay]}
        /\ timers' = MapSet(timers, d, to)

\* Mutant of scheduleValidate: a call while a Timeout is armed is dropped
\* (the first call of a burst wins, not the last).
scheduleValidateThrottle(d, delay) ==
    IF MapHas(timers, d)
    THEN UNCHANGED <<pending, timers>>
    ELSE LET to == FreshHandle(pending, d)
         IN  /\ Handles \ Alive(pending, d) # {}
             /\ pending' = pending \cup {[id |-> to, doc |-> d, delay |-> delay]}
             /\ timers' = MapSet(timers, d, to)

\* scheduleValidate(document, delay)
scheduleValidate(d, delay) ==
    LET cleared == IF MapHas(timers, d) THEN clearTimeout(pending, timers[d])
                                        ELSE pending
        to      == FreshHandle(cleared, d)
    IN  /\ Handles \ Alive(cleared, d) # {}
        /\ pending' = cleared \cup {[id |-> to, doc |-> d, delay |-> delay]}
        /\ timers' = MapSet(timers, d, to)

\* The delay of the Timeout a call of scheduleValidate for d cancels (0: none).
Replaced(d) ==
    IF TimersOf(d) = {} THEN 0 ELSE (CHOOSE t \in TimersOf(d) : TRUE).delay

ScheduleEvent(op, d, delay) ==
    [NoEvent EXCEPT !.op = op, !.doc = d, !.delay = delay, !.replaced = Replaced(d)]

(***************************************************************************)
(* setupDiagnostics: the state after activation.  The documents the editor *)
(* holds, and the active editor if any, are given; the active editor's     *)
(* document is scheduled with a delay of 50.                               *)
(***************************************************************************)
Init ==
    /\ languageId = [d \in Docs |-> IF d = "d1" THEN "river" ELSE "plaintext"]
    /\ open \in [Docs -> BOOLEAN]
    /\ text \in [Docs -> Texts]
    /\ collection = EmptyMap
    /\ children = [d \in Docs |-> <<>>]
    /\ formats = <<>>
    /\ validated = [d \in Docs |-> NotValidated]
    /\ \E active \in {Undefined} \cup {d \in Docs : open[d]} :
          /\ timers = IF active = Undefined THEN EmptyMap
                      ELSE MapSet(EmptyMap, active, 1)
          /\ pending = IF active = Undefined THEN {}
                       ELSE {[id |-> 1, doc |-> active, delay |-> 50]}
          /\ event = [NoEvent EXCEPT !.doc = active,
                         !.delay = IF active = Undefined THEN 0 ELSE 50]

(***************************************************************************)
(* validate(document), called when the Timeout of the document fires.      *)
(* `outcome` is how cp.spawn ends and `writeThrows` whether                *)
(* child.stdin.write throws.  The child is given the text the document has *)
(* now (recorded in event.input).  validate registers a listener for       *)
(* 'close' only.                                                           *)
(***************************************************************************)
\* Mutant of validate: the language of the document is not looked at.
validateAnyLanguage(d, outcome, writeThrows) ==
    /\ children' = [children EXCEPT ![d] =
           Append(@, [phase |-> IF outcome = "ok" THEN "running" ELSE "spawnerr",
                      superseded |-> FALSE])]
    /\ collection' = IF writeThrows THEN MapSet(collection, d, <<>>)
                                    ELSE collection

validate(d, outcome, writeThrows) ==
    IF languageId[d] # "river"
    THEN UNCHANGED <<collection, children>>
    ELSE /\ children' = [children EXCEPT ![d] =
                Append(@, [phase |-> IF outcome = "ok" THEN "running" ELSE "spawnerr",
                           superseded |-> FALSE])]
         /\ collection' = IF writeThrows THEN MapSet(collection, d, <<>>)
                                         ELSE collection

RECURSIVE SumLen(_, _)
SumLen(f, D) ==
    IF D = {} THEN 0
    ELSE LET d == CHOOSE x \in D : TRUE IN Len(f[d]) + SumLen(f, D \ {d})

\* The number of validation processes in flight.
InFlight == SumLen(children, Docs)

\* Mutant of TimerFire: validate is given a snapshot of the text, "a", not
\* the text the document has when the Timeout fires.
TimerFireSnapshot(t, outcome, writeThrows) ==
    /\ t \in pending
    /\ languageId[t.doc] = "river" => InFlight < MaxInFlight
    /\ pending' = pending \ {t}
    /\ timers' = MapDelete(timers, t.doc)
    /\ validate(t.doc, outcome, writeThrows)
    /\ event' = [NoEvent EXCEPT !.op = "fire", !.doc = t.doc, !.delay = t.delay,
                    !.input = IF languageId[t.doc] = "river" THEN <<"a">> ELSE <<>>,
                    !.outcome = IF languageId[t.doc] = "river" THEN outcome
                                                               ELSE Undefined,
                    !.wrote = (languageId[t.doc] = "river" /\ writeThrows)]
    /\ validated' = IF languageId[t.doc] # "river" THEN validated
                     ELSE [validated EXCEPT ![t.doc] =
                              [started |-> TRUE, text |-> <<"a">>]]
    /\ UNCHANGED <<open, languageId, text, formats>>

\* The callback of the Timeout t: timers.delete(key); validate(document).
TimerFire(t, outcome, writeThrows) ==
    /\ t \in pending
    /\ languageId[t.doc] = "river" => InFlight < MaxInFlight
    /\ pending' = pending \ {t}
    /\ timers' = MapDelete(timers, t.doc)
    /\ validate(t.doc, outcome, writeThrows)
    /\ event' = [NoEvent EXCEPT !.op = "fire", !.doc = t.doc, !.delay = t.delay,
                    !.input = IF languageId[t.doc] = "river" THEN text[t.doc] ELSE <<>>,
                    !.outcome = IF languageId[t.doc] = "river" THEN outcome
                                                               ELSE Undefined,
                    !.wrote = (languageId[t.doc] = "river" /\ writeThrows)]
    /\ validated' = IF languageId[t.doc] # "river" THEN validated
                     ELSE [validated EXCEPT ![t.doc] =
                              [started |-> TRUE, text |-> text[t.doc]]]
    /\ UNCHANGED <<open, languageId, text, formats>>

(***************************************************************************)
(* The lifecycle subscriptions.  The editor reports an open for a document *)
(* it does not hold, and a change, save, activation or close for one it    *)
(* holds.                                                                  *)
(***************************************************************************)
OnDidOpenTextDocument(d) ==
    /\ ~open[d]
    /\ open' = [open EXCEPT ![d] = TRUE]
    /\ \E t \in Texts : text' = [text EXCEPT ![d] = t]
    /\ scheduleValidate(d, 50)
    /\ event' = ScheduleEvent("open", d, 50)
    /\ UNCHANGED <<languageId, collection, children, formats, validated>>

OnDidChangeTextDocument(d) ==
    /\ open[d]
    /\ \E t \in Texts : text' = [text EXCEPT ![d] = t]
    /\ scheduleValidate(d, 250)
    /\ event' = ScheduleEvent("change", d, 250)
    /\ validated' = [validated EXCEPT ![d] = NotValidated]
    /\ UNCHANGED <<open, languageId, collection, children, formats>>

OnDidSaveTextDocument(d) ==
    /\ open[d]
    /\ scheduleValidate(d, 50)
    /\ event' = ScheduleEvent("save", d, 50)
    /\ UNCHANGED <<open, languageId, text, collection, children, formats,
                   validated>>

\* ed is the document of the editor that became active, or Undefined.
OnDidChangeActiveTextEditor(ed) ==
    /\ ed # Undefined => open[ed]
    /\ IF ed # Undefined
       THEN /\ scheduleValidate(ed, 50)
            /\ event' = ScheduleEvent("activate", ed, 50)
       ELSE /\ UNCHANGED <<timers, pending>>
            /\ event' = NoEvent
    /\ UNCHANGED <<open, languageId, text, collection, children, formats,
                   validated>>

\* Mutant of closeDocument: the entry of the timers Map is deleted without
\* clearing its Timeout.
closeDocumentKeepTimer(d) ==
    /\ collection' = MapDelete(collection, d)
    /\ pending' = pending
    /\ timers' = MapDelete(timers, d)

\* Mutant of closeDocument: the whole collection is cleared.
closeDocumentClearAll(d) ==
    /\ collection' = EmptyMap
    /\ pending' = IF MapHas(timers, d) THEN clearTimeout(pending, timers[d])
                                       ELSE pending
    /\ timers' = MapDelete(timers, d)

\* The body of the onDidCloseTextDocument listener.
closeDocument(d) ==
    /\ collection' = MapDelete(collection, d)
    /\ pending' = IF MapHas(timers, d) THEN clearTimeout(pending, timers[d])
                                       ELSE pending
    /\ timers' = MapDelete(timers, d)

OnDidCloseTextDocument(d) ==
    /\ open[d]
    /\ open' = [open EXCEPT ![d] = FALSE]
    /\ closeDocument(d)
    /\ event' = [NoEvent EXCEPT !.op = "closeDocument", !.doc = d,
                    !.replaced = Replaced(d), !.wrote = TRUE]
    /\ UNCHANGED <<languageId, text, children, formats, validated>>

(***************************************************************************)
(* The notifications of a validation process.                              *)
(***************************************************************************)
RemoveAt(seq, i) == SubSeq(seq, 1, i - 1) \o SubSeq(seq, i + 1, Len(seq))

\* History: when the validation at index i reports, those spawned before it
\* and still running have been overtaken.
Overtake(seq, i) ==
    [k \in 1..Len(seq) |-> IF k < i THEN [seq[k] EXCEPT !.superseded = TRUE]
                                    ELSE seq[k]]

\* Mutant of onChildClose: exit code 0 returns without clearing.
onChildCloseKeepOnSuccess(d, code, stderr) ==
    LET parsed == parseAlloyErrors(stderr)
    IN  collection' = IF code = 0 THEN collection
                      ELSE MapSet(collection, d,
                              IF Len(parsed) = 0 THEN <<>>
                              ELSE Diagnostics(parsed, text[d]))

\* Mutant of onChildClose: the new diagnostics are added to those published.
onChildCloseMerge(d, code, stderr) ==
    LET parsed == parseAlloyErrors(stderr)
    IN  collection' = MapSet(collection, d,
            IF code = 0 THEN <<>>
            ELSE IF Len(parsed) = 0 THEN <<>>
            ELSE Published(d) \o Diagnostics(parsed, text[d]))

\* The 'close' listener of validate, for exit code code and the stderr text
\* collected.
onChildClose(d, code, stderr) ==
    LET parsed == parseAlloyErrors(stderr)
    IN  collection' = MapSet(collection, d,
            IF code = 0 THEN <<>>
            ELSE IF Len(parsed) = 0 THEN <<>>
            ELSE Diagnostics(parsed, text[d]))

\* Mutant of ChildClose: the result of a validation that a later started one
\* has overtaken is dropped (last issued wins).
ChildCloseSequenced(d, i, code, stderr) ==
    /\ i \in 1..Len(children[d])
    /\ children[d][i].phase = "running"
    /\ children' = [children EXCEPT ![d] = RemoveAt(Overtake(@, i), i)]
    /\ IF children[d][i].superseded THEN UNCHANGED collection
                                     ELSE onChildClose(d, code, stderr)
    /\ event' = [NoEvent EXCEPT !.op = "exit", !.doc = d, !.code = code,
                    !.stderr = IF code = 0 THEN <<>> ELSE stderr, !.wrote = TRUE,
                    !.hadDiags = (Published(d) # <<>>),
                    !.stale = children[d][i].superseded]
    /\ UNCHANGED <<open, languageId, text, timers, pending, formats, validated>>

\* The process of the validation at index i of document d exits and its
\* streams close.
ChildClose(d, i, code, stderr) ==
    /\ i \in 1..Len(children[d])
    /\ children[d][i].phase = "running"
    /\ children' = [children EXCEPT ![d] = RemoveAt(Overtake(@, i), i)]
    /\ onChildClose(d, code, stderr)
    /\ event' = [NoEvent EXCEPT !.op = "exit", !.doc = d, !.code = code,
                    !.stderr = IF code = 0 THEN <<>> ELSE stderr, !.wrote = TRUE,
                    !.hadDiags = (Published(d) # <<>>),
                    !.stale = children[d][i].superseded]
    /\ UNCHANGED <<open, languageId, text, timers, pending, formats, validated>>

\* The process of the validation at index i could not be started: the
\* runtime emits 'error' on the child.  validate registered no 'error'
\* listener, so the emit throws into the event loop before the child's
\* 'close' is emitted, and no code of the extension runs.
ChildError(d, i) ==
    /\ i \in 1..Len(children[d])
    /\ children[d][i].phase = "spawnerr"
    /\ children' = [children EXCEPT ![d] = RemoveAt(@, i)]
    /\ event' = [NoEvent EXCEPT !.op = "error", !.doc = d, !.outcome = "enoent",
                    !.hadDiags = (Published(d) # <<>>)]
    /\ UNCHANGED <<open, languageId, text, timers, pending, collection, formats,
                   validated>>

(***************************************************************************)
(* The explicit format action: provideDocumentFormattingEdits and          *)
(* runAlloyFmt.  A string that holds an element longer than one character  *)
(* holds that run of characters, none of which is "<".                     *)
(***************************************************************************)
RECURSIVE DecimalText(_)
\* The decimal text of an exit code, as a template literal gives it.
DecimalText(n) ==
    IF n < 0 THEN <<"-">> \o DecimalText(0 - n)
    ELSE IF n < 10 THEN <<Digits[n + 1]>>
    ELSE DecimalText(n \div 10) \o <<Digits[(n % 10) + 1]>>

Hint == <<"Ensure alloy is installed and on PATH, or set river.alloyPath.">>

\* The text showErrorMessage is given for the rejection message msg.
ErrorMessage(msg) == <<"River format failed: ">> \o msg \o <<" ">> \o Hint

\* err.message of the runtime's errors.
SpawnErrorText == <<"spawn alloy ENOENT">>

WriteErrorText == <<"write EPIPE">>

\* The exit code the runtime reports on 'close' for a process that could not
\* be started: the negated errno.
SpawnErrorCode == 0 - 2

\* The range from the start of the first line to the end of the last.
FullRange(t) == Range(Position(0, 0), LineEnd(t, lineCount(t) - 1))

\* Mutant of Reject: the .catch callback shows every failure.
RejectAlwaysShow(f, cause, msg) ==
    IF f.promise # "pending" THEN f
    ELSE [f EXCEPT !.promise = "rejected",
                   !.cause = cause,
                   !.messages = Append(@, ErrorMessage(msg)),
                   !.returned = TRUE,
                   !.edits = <<>>]

\* Mutant of Reject: a rejection of a promise already settled runs the
\* .catch callback again.
RejectUnguarded(f, cause, msg) ==
    [f EXCEPT !.promise = "rejected",
              !.cause = cause,
              !.messages = IF hasPositions(msg) THEN @
                           ELSE Append(@, ErrorMessage(msg)),
              !.returned = TRUE,
              !.edits = <<>>]

\* reject(new Error(msg)) and, when that settles the promise, the .catch
\* callback of provideDocumentFormattingEdits.
Reject(f, cause, msg) ==
    IF f.promise # "pending" THEN f
    ELSE [f EXCEPT !.promise = "rejected",
                   !.cause = cause,
                   !.messages = IF hasPositions(msg) THEN @
                                ELSE Append(@, ErrorMessage(msg)),
                   !.returned = TRUE,
                   !.edits = <<>>]

\* Mutant of Resolve: the .then callback returns the edit without comparing
\* the formatted text with the original.
ResolveAlwaysEdit(f, formatted) ==
    IF f.promise # "pending" THEN f
    ELSE [f EXCEPT !.promise = "resolved",
                   !.returned = TRUE,
                   !.edits = << [range   |-> FullRange(text[f.doc]),
                                 newText |-> formatted] >>]

\* resolve(stdout) and, when that settles the promise, the .then callback of
\* provideDocumentFormattingEdits.
Resolve(f, formatted) ==
    IF f.promise # "pending" THEN f
    ELSE [f EXCEPT !.promise = "resolved",
                   !.returned = TRUE,
                   !.edits = IF formatted = f.original THEN <<>>
                             ELSE << [range   |-> FullRange(text[f.doc]),
                                      newText |-> formatted] >>]

\* Mutant of ProvideDocumentFormattingEdits: the format action cancels the
\* validation pending for the document.
ProvideDocumentFormattingEditsCancelling(d, outcome, writeThrows) ==
    /\ open[d]
    /\ languageId[d] = "river"
    /\ Len(formats) < MaxFormats
    /\ formats' = Append(formats,
          NewFormat(d, text[d], IF outcome = "ok" THEN "running" ELSE "spawnerr"))
    /\ pending' = IF MapHas(timers, d) THEN clearTimeout(pending, timers[d])
                                       ELSE pending
    /\ timers' = MapDelete(timers, d)
    /\ event' = [NoEvent EXCEPT !.op = "format", !.doc = d, !.outcome = outcome,
                    !.input = text[d], !.action = Len(formats) + 1]
    /\ UNCHANGED <<open, languageId, text, collection, children, validated>>

\* provideDocumentFormattingEdits(document) up to the return of runAlloyFmt:
\* the process is spawned, the listeners are registered and the text is
\* written to stdin.
ProvideDocumentFormattingEdits(d, outcome, writeThrows) ==
    /\ open[d]
    /\ languageId[d] = "river"
    /\ Len(formats) < MaxFormats
    /\ LET f == NewFormat(d, text[d],
                           IF outcome = "ok" THEN "running" ELSE "spawnerr")
       IN  formats' = Append(formats,
              IF writeThrows
              THEN Reject(f, "write",
                          <<"Failed to write to formatter: ">> \o WriteErrorText)
              ELSE f)
    /\ event' = [NoEvent EXCEPT !.op = "format", !.doc = d, !.outcome = outcome,
                    !.input = text[d], !.action = Len(formats) + 1]
    /\ UNCHANGED <<open, languageId, text, timers, pending, collection, children,
                   validated>>

\* The 'error' listener of runAlloyFmt: the process of format action k could
\* not be started.  The runtime emits 'close' afterwards.
FormatChildError(k) ==
    /\ k \in 1..Len(formats)
    /\ formats[k].phase = "spawnerr"
    /\ formats' = [formats EXCEPT ![k] =
          [Reject(@, "spawn", <<"Failed to start formatter: ">> \o SpawnErrorText)
              EXCEPT !.phase = "errored"]]
    /\ event' = [NoEvent EXCEPT !.op = "formatError", !.doc = formats[k].doc,
                    !.outcome = "enoent", !.action = k]
    /\ UNCHANGED <<open, languageId, text, timers, pending, collection, children,
                   validated>>

\* The 'close' listener of runAlloyFmt.
onFormatClose(f, code, stdout, stderr) ==
    IF code = 0
    THEN Resolve(f, stdout)
    ELSE Reject(f, "exit",
                IF Len(stderr) # 0 THEN stderr
                ELSE <<"alloy fmt exited with code ">> \o DecimalText(code))

\* The process of format action k has ended and its streams are closed.  A
\* process that could not be started closes with the error's code and has
\* written nothing.
FormatChildClose(k, code, stdout, stderr) ==
    /\ k \in 1..Len(formats)
    /\ \/ formats[k].phase = "running" /\ code \in ExitCodes
       \/ /\ formats[k].phase = "errored"
          /\ code = SpawnErrorCode /\ stdout = <<>> /\ stderr = <<>>
    /\ formats' = RemoveAt(formats, k)
    /\ event' = [NoEvent EXCEPT !.op = "formatExit", !.doc = formats[k].doc,
                    !.code = code, !.stderr = stderr, !.stdout = stdout,
                    !.action = k,
                    !.result = [onFormatClose(formats[k], code, stdout, stderr)
                                   EXCEPT !.phase = "closed", !.stderr = stderr]]
    /\ UNCHANGED <<open, languageId, text, timers, pending, collection, children,
                   validated>>

Next ==
    \/ \E d \in Docs : OnDidOpenTextDocument(d)
    \/ \E d \in Docs : OnDidChangeTextDocument(d)
    \/ \E d \in Docs : OnDidSaveTextDocument(d)
    \/ \E ed \in Docs \cup {Undefined} : OnDidChangeActiveTextEditor(ed)
    \/ \E d \in Docs : OnDidCloseTextDocument(d)
    \/ \E t \in pending, outcome \in SpawnOutcomes, writeThrows \in BOOLEAN :
          TimerFire(t, outcome, writeThrows)
    \/ \E d \in Docs, i \in 1..MaxInFlight, code \in ExitCodes, stderr \in Stderrs :
          ChildClose(d, i, code, stderr)
    \/ \E d \in Docs, i \in 1..MaxInFlight : ChildError(d, i)

Spec == Init /\ [][Next]_vars

\* The format action alone, on a river document that is edited meanwhile.
InitFormat ==
    /\ Init
    /\ \A d \in Docs : open[d] <=> languageId[d] = "river"
    /\ pending = {}

NextFormat ==
    \/ \E d \in Docs : languageId[d] = "river" /\ OnDidChangeTextDocument(d)
    \/ \E d \in Docs, outcome \in SpawnOutcomes, writeThrows \in BOOLEAN :
          ProvideDocumentFormattingEdits(d, outcome, writeThrows)
    \/ \E k \in 1..MaxFormats : FormatChildError(k)
    \/ \E k \in 1..MaxFormats, code \in ExitCodes \cup {SpawnErrorCode},
          stdout \in Stdouts \cup {<<>>}, stderr \in Stderrs :
          FormatChildClose(k, code, stdout, stderr)

SpecFormat == InitFormat /\ [][NextFormat]_vars

\* The validator and the format action together, on a river document that is
\* saved, closed and reopened; every validation process is started and
\* exits with ErrOne on stderr.
InitAll ==
    /\ Init
    /\ \A d \in Docs : open[d] <=> languageId[d] = "river"
    /\ \A d \in Docs : text[d] = <<"a">>

NextAll ==
    \/ \E d \in Docs : languageId[d] = "river" /\ OnDidSaveTextDocument(d)
    \/ \E d \in Docs : languageId[d] = "river" /\ OnDidCloseTextDocument(d)
    \/ \E d \in Docs :
          languageId[d] = "river" /\ OnDidOpenTextDocument(d) /\ text' = text
    \/ \E t \in pending : TimerFire(t, "ok", FALSE)
    \/ \E d \in Docs, i \in 1..MaxInFlight, code \in ExitCodes :
          ChildClose(d, i, code, ErrOne)
    \/ \E d \in Docs, outcome \in SpawnOutcomes, writeThrows \in BOOLEAN :
          ProvideDocumentFormattingEdits(d, outcome, writeThrows)
    \/ \E k \in 1..MaxFormats : FormatChildError(k)
    \/ \E k \in 1..MaxFormats, code \in ExitCodes \cup {SpawnErrorCode},
          stdout \in {<<>>, <<"a">>}, stderr \in {<<>>, ErrOne} :
          FormatChildClose(k, code, stdout, stderr)

SpecAll == InitAll /\ [][NextAll]_vars

\* The validator under fair scheduling: the Timeout of a document fires if
\* it stays armed, and the processes of a document exit.  Every process is started, and exits with
\* ErrOne on stderr.
NextLive ==
    \/ \E d \in Docs : OnDidSaveTextDocument(d)
    \/ \E d \in Docs : OnDidCloseTextDocument(d)
    \/ \E d \in Docs : OnDidOpenTextDocument(d) /\ text' = text
    \/ \E t \in pending : TimerFire(t, "ok", FALSE)
    \/ \E d \in Docs, i \in 1..MaxInFlight, code \in ExitCodes :
          ChildClose(d, i, code, ErrOne)

SpecLive ==
    /\ Init
    /\ [][NextLive]_vars
    /\ \A d \in Docs :
          WF_vars(\E t \in pending : t.doc = d /\ TimerFire(t, "ok", FALSE))
    /\ \A d \in Docs :
          WF_vars(\E i \in 1..MaxInFlight, code \in ExitCodes :
                     ChildClose(d, i, code, ErrOne))

\* The validator on two river documents, both open at activation, one of
\* them in the active editor; every process is started, and exits with
\* ErrOne or ErrTwo on stderr.
InitTwo ==
    /\ languageId = [d \in Docs |-> "river"]
    /\ open = [d \in Docs |-> TRUE]
    /\ text = [d \in Docs |-> <<"a">>]
    /\ collection = EmptyMap
    /\ children = [d \in Docs |-> <<>>]
    /\ formats = <<>>
    /\ validated = [d \in Docs |-> NotValidated]
    /\ \E active \in Docs :
          /\ timers = MapSet(EmptyMap, active, 1)
          /\ pending = {[id |-> 1, doc |-> active, delay |-> 50]}
          /\ event = [NoEvent EXCEPT !.doc = active, !.delay = 50]

NextTwo ==
    \/ \E d \in Docs : OnDidSaveTextDocument(d)
    \/ \E d \in Docs : OnDidCloseTextDocument(d)
    \/ \E d \in Docs : OnDidOpenTextDocument(d) /\ text' = text
    \/ \E t \in pending : TimerFire(t, "ok", FALSE)
    \/ \E d \in Docs, i \in 1..MaxInFlight, code \in ExitCodes,
          stderr \in {ErrOne, ErrTwo} : ChildClose(d, i, code, stderr)

SpecTwo == InitTwo /\ [][NextTwo]_vars

\* The parser alone: the formatter has written a stderr text of one to
\* MaxRecords positioned errors, and parseAlloyErrors is applied to it.
InitParser ==
    /\ languageId = [d \in Docs |-> IF d = "d1" THEN "river" ELSE "plaintext"]
    /\ open = [d \in Docs |-> FALSE]
    /\ text = [d \in Docs |-> <<"a">>]
    /\ timers = EmptyMap
    /\ pending = {}
    /\ collection = EmptyMap
    /\ children = [d \in Docs |-> <<>>]
    /\ formats = <<>>
    /\ validated = [d \in Docs |-> NotValidated]
    /\ \E n \in 1..MaxRecords :
          \E recs \in [1..n -> ErrorRecords], seps \in [1..(n - 1) -> Separators] :
             event = [NoEvent EXCEPT !.op = "stderr", !.records = recs,
                                     !.stderr = StderrText(recs, seps)]

ParseStderr ==
    /\ event.op = "stderr"
    /\ event' = [event EXCEPT !.op = "parse",
                               !.parsed = parseAlloyErrors(event.stderr)]
    /\ UNCHANGED <<open, languageId, text, timers, pending, collection,
                   children, formats, validated>>

NextParser == ParseStderr

SpecParser == InitParser /\ [][NextParser]_vars

(***************************************************************************)
(* The claims.                                                             *)
(***************************************************************************)
\* The operations that call scheduleValidate.
ScheduleOps == {"open", "change", "save", "activate"}

\* What the 'close' listener of validate is to publish for an exit with a
\* non-zero code and stderr text se, read off the parser's records.
MatchesRecords(diags, parsed) ==
    /\ Len(diags) = Len(parsed)
    /\ \A k \in 1..Len(parsed) :
          /\ diags[k].message = parsed[k].message
          /\ Position(parsed[k].line, parsed[k].col)
                \in {diags[k].range.start, diags[k].range.end}

\* C1 (as claimed): once a document is closed it has no diagnostics until it
\* is opened again, whatever validation process of it reports after the
\* close.  An entry that holds the empty sequence is counted as no
\* diagnostics, in the claim's favour.
C1_ClosedStaysRemoved ==
    \A d \in Docs : ~open[d] => Published(d) = <<>>

\* C2 (as claimed): at most one background validation process is in flight
\* for a document in every reachable state.
C2_AtMostOneInFlight ==
    \A d \in Docs :
        Cardinality({i \in 1..Len(children[d]) : children[d][i].phase = "running"}) <= 1

\* C3: at most one debounce timer is pending for a document, and the timers
\* map holds an entry for the document exactly when one is pending, which is
\* then the Timeout the entry refers to.
C3_OneTimerPerDocument ==
    \A d \in Docs :
        /\ Cardinality(TimersOf(d)) <= 1
        /\ MapHas(timers, d) <=> TimersOf(d) # {}
        /\ MapHas(timers, d) => \A t \in TimersOf(d) : t.id = timers[d]

C3_Witness ==
    /\ event.op \in ScheduleOps
    /\ event.replaced # 0
    /\ \A d \in Docs : Cardinality(TimersOf(d)) = 1

\* C4 (as claimed): the result of a validation that reports after a later
\* issued validation of the same open document has reported is discarded:
\* the published diagnostics stay those the later one left.
C4_StaleResultDiscarded ==
    [][ (event'.op = "exit" /\ event'.stale /\ open[event'.doc])
           => PublishedIn(collection', event'.doc)
                 = PublishedIn(collection, event'.doc) ]_vars

\* C5 (as claimed): when the process of a background validation cannot be
\* started, the document's diagnostics are cleared by that validation.
C5_SpawnFailureClears ==
    (event.op = "error" /\ open[event.doc]) => Published(event.doc) = <<>>

\* C6: after the exit notification of a validation process that exited with
\* code 0, the document's diagnostics are the empty sequence.
C6_ExitZeroClears ==
    (event.op = "exit" /\ event.code = 0) =>
        /\ MapHas(collection, event.doc)
        /\ collection[event.doc] = <<>>

C6_Witness ==
    /\ event.op = "exit" /\ event.code = 0
    /\ open[event.doc] /\ event.hadDiags
    /\ collection[event.doc] = <<>>

\* C7: after the exit notification of a validation process that exited with
\* a non-zero code, the document's diagnostics are one per record the parser
\* extracts from the process's stderr, in the parser's order, each with the
\* record's message and position, and nothing else.
C7_ExitNonZeroReplaces ==
    (event.op = "exit" /\ event.code # 0) =>
        /\ MapHas(collection, event.doc)
        /\ MatchesRecords(collection[event.doc], parseAlloyErrors(event.stderr))

C7_Witness ==
    /\ event.op = "exit" /\ event.code # 0
    /\ open[event.doc] /\ event.hadDiags
    /\ event.stderr = ErrTwo
    /\ Len(collection[event.doc]) = 2
    /\ collection[event.doc][1].message = <<"y">>
    /\ collection[event.doc][2].message = <<"x">>

\* C8: after any call of scheduleValidate for a document exactly one timer is
\* pending for it, with the delay of that call (an earlier one is cancelled);
\* a validation process is started only by the expiry of the timer pending
\* for its document, one per expiry, and the expiry leaves no timer pending
\* for the document.
C8_Debounce ==
    /\ [] ( (event.op \in ScheduleOps /\ event.doc # Undefined) =>
               /\ Cardinality(TimersOf(event.doc)) = 1
               /\ \A t \in TimersOf(event.doc) : t.delay = event.delay )
    /\ [][ \A d \in Docs :
              children'[d] # children[d] /\ Len(children'[d]) >= Len(children[d])
                 => /\ event'.op = "fire" /\ event'.doc = d
                    /\ Len(children'[d]) = Len(children[d]) + 1
                    /\ TimersOf(d) # {}
                    /\ TimersOf(d)' = {} ]_vars

C8_Witness ==
    /\ event.op = "change" /\ event.replaced = 50
    /\ languageId[event.doc] = "river"
    /\ \A t \in TimersOf(event.doc) : t.delay = 250
    /\ Cardinality(TimersOf(event.doc)) = 1

\* C9 (as claimed): every failed formatter invocation, of the background
\* validation or of the format action, shows an error message or writes the
\* document's diagnostics.
C9_NoSilentFailure ==
    /\ event.op = "error" => event.wrote
    /\ (event.op = "exit" /\ event.code # 0) => event.wrote
    /\ (event.op = "formatExit" /\ event.result.promise = "rejected")
          => (Len(event.result.messages) >= 1 \/ event.wrote)

\* The format actions in progress and the one the last notification ended.
FormatActions ==
    {formats[k] : k \in 1..Len(formats)}
       \cup (IF event.op = "formatExit" THEN {event.result} ELSE {})

\* The message is the one the .catch callback builds: it ends with the hint.
IsRemediation(m) ==
    /\ Len(m) >= 2
    /\ m[1] = "River format failed: "
    /\ m[Len(m)] = Hint[1]

\* C10: a format action that failed has returned the empty edit list; it has
\* shown exactly one error message, with the hint, when it failed by a spawn
\* failure, a write failure or a non-zero exit whose stderr holds no
\* <stdin>:L:C: marker, and none when that stderr holds such a marker.
C10_FormatFailureMessages ==
    \A f \in FormatActions :
        f.promise = "rejected" =>
            /\ f.returned /\ f.edits = <<>>
            /\ Len(f.messages) =
                  IF f.cause = "exit" /\ hasPositions(f.stderr) THEN 0 ELSE 1
            /\ \A k \in 1..Len(f.messages) : IsRemediation(f.messages[k])

C10_Witness ==
    /\ event.op = "formatExit" /\ event.code # 0
    /\ event.result.promise = "rejected" /\ event.result.cause = "exit"
    /\ hasPositions(event.result.stderr)
    /\ event.result.messages = <<>>
    /\ event.result.returned /\ event.result.edits = <<>>

\* What the claim expects of the parser for the records recs.
ExpectedErrors(recs) ==
    [k \in 1..Len(recs) |->
        [line    |-> ParseInt(recs[k].L) - 1,
         col     |-> ParseInt(recs[k].C) - 1,
         message |-> Trim(CollapseSpace(recs[k].msg))]]

\* C11 (as claimed): for a stderr text made of records <stdin>:L:C: msg
\* separated by spaces and newlines, parseAlloyErrors returns one entry per
\* record, in order, with line L - 1, column C - 1 and the record's message
\* text, whitespace-normalised and trimmed.
C11_ParserRecords ==
    event.op = "parse" => event.parsed = ExpectedErrors(event.records)

\* The range covers the whole of text t: from line 0, character 0 to the end
\* of the last line.
CoversDocument(range, t) ==
    /\ range.start = Position(0, 0)
    /\ range.end.line = CountNewlines(t)
    /\ range.end.character = LineLen(t, CountNewlines(t))

\* What the claim expects a format action to return when its process exits
\* with code 0 and has written stdout.
SuccessEdits(f, stdout) ==
    /\ f.returned
    /\ IF stdout = f.original THEN f.edits = <<>>
       ELSE /\ Len(f.edits) = 1
            /\ f.edits[1].newText = stdout
            /\ CoversDocument(f.edits[1].range, text[f.doc])

\* C12 (as claimed): a format action whose process exits with code 0 returns
\* no edit when stdout equals the text the action read, and otherwise one
\* edit that replaces the whole document with stdout.
C12_ExitZeroEdits ==
    (event.op = "formatExit" /\ event.code = 0) =>
        SuccessEdits(event.result, event.stdout)

\* C12 (amended): that holds when the write of the text to the process's
\* stdin did not throw; when it threw, the action has already failed: it
\* returned no edit and showed one error message, whatever the process then
\* exits with.
C12_ExitZeroEditsUnlessWriteFailed ==
    (event.op = "formatExit" /\ event.code = 0) =>
        IF event.result.cause = "write"
        THEN /\ event.result.returned /\ event.result.edits = <<>>
             /\ Len(event.result.messages) = 1
        ELSE /\ event.result.promise = "resolved"
             /\ event.result.messages = <<>>
             /\ SuccessEdits(event.result, event.stdout)

C12_Witness ==
    /\ event.op = "formatExit" /\ event.code = 0
    /\ event.result.promise = "resolved"
    /\ event.stdout # event.result.original
    /\ text[event.doc] # event.result.original
    /\ Len(event.result.edits) = 1
    /\ event.result.edits[1].newText = event.stdout

\* The result of the validation whose exit notification was handled last.
ExitResult ==
    IF event.code = 0 THEN <<>>
    ELSE Diagnostics(parseAlloyErrors(event.stderr), text[event.doc])

\* After an exit notification the document's diagnostics are that
\* validation's result, whether or not a later started one reported before.
ExitResultPublished ==
    event.op = "exit" =>
        /\ MapHas(collection, event.doc)
        /\ collection[event.doc] = ExitResult

\* C13 (as claimed): the diagnostics of an open document are those of the
\* validation whose exit notification was handled last: each exit
\* notification publishes its result, and while the document stays open
\* nothing but an exit notification of the document changes them.
C13_LastCompletionWins ==
    /\ []ExitResultPublished
    /\ [][ \A d \in Docs :
              (open[d] /\ open'[d]
                 /\ PublishedIn(collection', d) # PublishedIn(collection, d))
                 => (event'.op = "exit" /\ event'.doc = d) ]_vars

\* C13 (amended): as claimed, except that a validation whose write to the
\* process's stdin throws empties the document's diagnostics when it is
\* started.
C13_LastCompletionOrWriteFailureWins ==
    /\ []ExitResultPublished
    /\ [][ \A d \in Docs :
              (open[d] /\ open'[d]
                 /\ PublishedIn(collection', d) # PublishedIn(collection, d))
                 => \/ event'.op = "exit" /\ event'.doc = d
                    \/ /\ event'.op = "fire" /\ event'.doc = d /\ event'.wrote
                       /\ PublishedIn(collection', d) = <<>> ]_vars

C13_Witness ==
    /\ event.op = "exit" /\ event.stale /\ open[event.doc]
    /\ event.code # 0 /\ ~event.hadDiags
    /\ collection[event.doc] # <<>>
    /\ collection[event.doc] = ExitResult

\* C14: from the close of a document until scheduleValidate is called for it
\* again (in the model: until it is opened again) no timer is pending for
\* it, the timers map has no entry for it, and no validation process is
\* started for it.
C14_NothingAfterClose ==
    /\ [] ( \A d \in Docs : ~open[d] => (TimersOf(d) = {} /\ ~MapHas(timers, d)) )
    /\ [][ \A d \in Docs :
              (~open[d] /\ ~open'[d]) =>
                 /\ Len(children'[d]) <= Len(children[d])
                 /\ ~(event'.op = "fire" /\ event'.doc = d) ]_vars

C14_Witness ==
    /\ event.op = "closeDocument" /\ event.replaced # 0
    /\ languageId[event.doc] = "river"
    /\ ~open[event.doc]
    /\ TimersOf(event.doc) = {}
    /\ Len(children[event.doc]) >= 1

\* The notifications of the format action.
FormatOps == {"format", "formatError", "formatExit"}

\* C15: no step of a format action (its start, its process's 'error', its
\* process's 'close') changes the timers map, the pending timers, the
\* validation processes in flight or the diagnostic collection; and a format
\* action can start its process for an open river document whatever timers
\* are pending and whatever validations are in flight.
C15_FormatIndependent ==
    /\ [][ event'.op \in FormatOps =>
              UNCHANGED <<timers, pending, collection, children>> ]_vars
    /\ [] ( \A d \in Docs :
               (open[d] /\ languageId[d] = "river" /\ Len(formats) < MaxFormats)
                  => ENABLED ProvideDocumentFormattingEdits(d, "ok", FALSE) )

C15_Witness ==
    /\ event.op = "format" /\ event.outcome = "ok"
    /\ TimersOf(event.doc) # {}
    /\ Len(children[event.doc]) >= 1
    /\ Published(event.doc) # <<>>
    /\ Len(formats) >= 1 /\ formats[Len(formats)].phase = "running"

\* The outcome of a format action: how its promise settled, what it
\* returned and the error messages it has shown.
Outcome(f) ==
    [promise |-> f.promise, cause |-> f.cause, returned |-> f.returned,
     edits |-> f.edits, messages |-> f.messages]

\* Format action k of this state, as it is after the step (it is event.result
\* when the step is the 'close' of its process).
FormatAfter(k) ==
    IF event'.op = "formatExit" /\ event'.action = k THEN event'.result
    ELSE IF event'.op = "formatExit" /\ event'.action < k THEN formats'[k - 1]
    ELSE formats'[k]

\* C16: the promise of a format action settles once, with the outcome of the
\* first of the write failure, the 'error' notification and the 'close'
\* notification: no step changes the outcome of a settled action or the
\* messages it has shown; an action is settled once any of the three has
\* occurred; the write failure, which comes first when it occurs, decides
\* the outcome then; otherwise the 'error' does when it occurs; and a 'close'
\* decides only when neither has occurred.  An action shows at most one
\* message.
C16_SettlesOnce ==
    /\ [][ \A k \in 1..Len(formats) :
              formats[k].promise # "pending"
                 => Outcome(FormatAfter(k)) = Outcome(formats[k]) ]_vars
    /\ [] ( \A f \in FormatActions :
               /\ Len(f.messages) <= 1
               /\ f.returned <=> f.promise # "pending"
               /\ f.phase \in {"running", "spawnerr"}
                     => (f.promise = "pending"
                            \/ (f.promise = "rejected" /\ f.cause = "write"))
               /\ f.phase = "errored"
                     => (f.promise = "rejected" /\ f.cause \in {"write", "spawn"})
               /\ f.phase = "closed" => f.promise # "pending"
               /\ f.cause = "exit" => f.phase = "closed" )

C16_Witness ==
    /\ event.op = "formatExit" /\ event.code = SpawnErrorCode
    /\ event.result.phase = "closed"
    /\ event.result.promise = "rejected" /\ event.result.cause = "write"
    /\ Len(event.result.messages) = 1

\* C17: a validation is given the text its document has when its timer
\* fires; and for an open river document with no timer pending for which a
\* validation was started since its last change event, the validation
\* started last was given the document's current text.
C17_ValidatesCurrentText ==
    /\ (event.op = "fire" /\ languageId[event.doc] = "river")
          => event.input = text[event.doc]
    /\ \A d \in Docs :
          (open[d] /\ languageId[d] = "river" /\ TimersOf(d) = {}
              /\ validated[d].started)
             => validated[d].text = text[d]

C17_Witness ==
    /\ event.op = "fire" /\ event.delay = 250
    /\ languageId[event.doc] = "river" /\ open[event.doc]
    /\ TimersOf(event.doc) = {}
    /\ validated[event.doc].started
    /\ validated[event.doc].text = <<"a", "\n", "b", "b">>
    /\ text[event.doc] = <<"a", "\n", "b", "b">>
    /\ Len(children[event.doc]) = 2

\* A step that handles a lifecycle event of document d.
LifecycleStep(d) ==
    /\ event'.op \in ScheduleOps \cup {"closeDocument"}
    /\ event'.doc = d

\* Document d is at rest: no timer pending, no validation process in flight,
\* diagnostics written.
AtRest(d) ==
    /\ TimersOf(d) = {}
    /\ children[d] = <<>>
    /\ MapHas(collection, d)

\* If from some time on no lifecycle event of an open river document is
\* handled, and scheduleValidate was called for it, the document is
\* eventually at rest for good.
EventuallyAtRest ==
    \A d \in Docs :
        ( /\ <>[][~LifecycleStep(d)]_vars
          /\ <>[](open[d] /\ languageId[d] = "river")
          /\ <>(TimersOf(d) # {}) )
           => <>[]AtRest(d)

\* The step is the exit notification of the validation of d started last
\* (those left in flight have all been overtaken), with no timer pending.
LastStartedReports(d) ==
    /\ event'.op = "exit" /\ event'.doc = d
    /\ Len(children'[d]) = Len(children[d]) - 1
    /\ \A k \in 1..Len(children'[d]) : children'[d][k].superseded
    /\ open[d] /\ TimersOf(d) = {}

\* C18 (as claimed): under fair timer expiry and process exit, after a call
\* of scheduleValidate for an open river document that no lifecycle event of
\* the document follows, a validation starts, its result is written, and
\* from then on the document has no pending timer and no process in flight.
C18_ValidatesThenAtRest ==
    /\ EventuallyAtRest
    /\ []ExitResultPublished
    /\ [][ \A d \in Docs :
              LastStartedReports(d) =>
                 /\ TimersOf(d)' = {}
                 /\ children'[d] = <<>> ]_vars

\* What the validator holds for document d: its entry of the timers map, its
\* pending timer, its entry of the diagnostic collection and its processes
\* in flight.
StateOf(d) ==
    <<MapHas(timers, d), IF MapHas(timers, d) THEN timers[d] ELSE 0,
      TimersOf(d), MapHas(collection, d), Published(d), children[d]>>

\* C19: a lifecycle event, timer expiry, validation completion or close of a
\* document changes neither the timer nor the diagnostics (nor the processes
\* in flight) of any other document.
C19_DocumentsIsolated ==
    [][ \A a \in Docs, b \in Docs :
           (a # b /\ event'.doc = a) => StateOf(b)' = StateOf(b) ]_vars

C19_Witness ==
    /\ event.op = "closeDocument"
    /\ \E b \in Docs :
          /\ b # event.doc
          /\ TimersOf(b) # {}
          /\ Published(b) # <<>>
          /\ Len(children[b]) >= 1

\* C20: when the timer of a document that is not a river document fires,
\* the timer is consumed (it was pending, and afterwards none is pending and
\* the timers map has no entry for the document), no process is started and
\* the diagnostic collection is not written; such a document never has a
\* validation process nor an entry in the collection.
C20_NonRiverSkipped ==
    /\ [][ (event'.op = "fire" /\ languageId[event'.doc] # "river") =>
              /\ children' = children
              /\ collection' = collection
              /\ ~event'.wrote
              /\ TimersOf(event'.doc) # {}
              /\ {t \in pending' : t.doc = event'.doc} = {}
              /\ ~MapHas(timers', event'.doc) ]_vars
    /\ [] ( \A d \in Docs :
               languageId[d] # "river" =>
                  (children[d] = <<>> /\ ~MapHas(collection, d)) )

C20_Witness ==
    /\ event.op = "fire" /\ event.delay = 250
    /\ languageId[event.doc] # "river" /\ open[event.doc]
    /\ TimersOf(event.doc) = {}
    /\ children[event.doc] = <<>>
    /\ ~MapHas(collection, event.doc)
    /\ \E d \in Docs : Published(d) # <<>>

============================================================================
